---- MODULE Spec2Model ----
(***************************************************************************)
(* A model of the Markov-chain text generator in src/src/markov.rs:        *)
(* BufferTokSet (the packed multiset of token ids), Dict, TokenPaths,      *)
(* Entries and Chain (feed / generate).                                    *)
(*                                                                         *)
(* Rust values are represented as follows.                                 *)
(*   String          a sequence of one-character strings, <<"a", "b">>     *)
(*   Option<T>       a sequence of length 0 (None) or 1 (Some(x) = <<x>>)  *)
(*   Vec<T>          a sequence; Rust index i is TLA+ index i + 1          *)
(*   HashMap<K, V>   a function whose DOMAIN is the set of present keys    *)
(*   u8 / u16 / i32  integers, truncated where the code truncates          *)
(***************************************************************************)
EXTENDS Integers, Sequences, FiniteSets, TLC

VARIABLES
    tokset,     \* SpecTokSet: the BufferTokSet under test [buf, c1, c2]
    prefill,    \* SpecTokSet: history, <<n1, n2>> of the initial state Filled(n1, n2)
    adds,       \* SpecTokSet: history, the ids passed to add since then, in call order
    dict,       \* SpecDict: the Dict under test [tokenids, entries]
    dlast,      \* SpecDict: history, the last tokid call [called, token, id, pre]
    chain,      \* Spec: the Chain [dict, paths, entries]
    overflow_checks, \* Spec: whether the build checks integer overflow (debug) or wraps
    corpus,     \* Spec: history, the lines passed to feed_str, in call order
    ngens,      \* Spec: history, the number of generate calls made
    last,       \* Spec: history, the last call: its arguments, result and the Chain before
    clients,    \* SpecServer: each call of respond: its position, request and response channel
    rx_req,     \* SpecServer: the request channel, the messages sent and not yet received
    responder,  \* SpecServer: the responder task [pc, work, response, cause]
    log,        \* SpecServer: history, the sends to rx_req and the responder's steps, in order
    token_iter, \* SpecWalk: the TokenIter of the walk being made [direction, prefix, rng]
    walk_call   \* SpecWalk: the generate call being made [pc, seed, start, attempt, emitted]

vars == <<tokset, prefill, adds, dict, dlast, chain, overflow_checks, corpus, ngens, last,
          clients, rx_req, responder, log, token_iter, walk_call>>
toksetVars == <<tokset, prefill, adds>>
dictVars == <<dict, dlast>>
chainVars == <<chain, overflow_checks, corpus, ngens, last>>
serverVars == <<clients, rx_req, responder, log>>
walkVars == <<token_iter, walk_call>>

(***************************************************************************)
(* Option, String                                                          *)
(***************************************************************************)

None == <<>>
Some(x) == <<x>>
IsSome(o) == o # <<>>
Unwrap(o) == o[1]

Range(seq) == {seq[i] : i \in DOMAIN seq}
CountOf(seq, v) == Len(SelectSeq(seq, LAMBDA x : x = v))

\* the one-word strings of the model and the space character
Word(c) == <<c>>
Space == " "

(***************************************************************************)
(* BufferTokSet                                                            *)
(***************************************************************************)

\* Rust `x as u8`
AsU8(x) == x % 256

\* Vec::insert(index, element), index counted from 0
VecInsert(v, index, e) ==
    SubSeq(v, 1, index) \o <<e>> \o SubSeq(v, index + 1, Len(v))

\* the counter cap 0xFFFF of `self.c1 < 0xFFFF` and `self.c2 < 0xFFFF`
CounterCap == 65535
\* the magnitude limits 0xFF, 0xFFFF and 0x00FF_FFFF
Max1Byte == 255
Max2Byte == 65535
Max3Byte == 16777215

BufferTokSet_new == [buf |-> <<>>, c2 |-> 0, c1 |-> 0]

length(ts) ==
    LET first2 == ts.c1 + ts.c2
        leftover == Len(ts.buf) - ts.c1 - (ts.c2 * 2)
        byte3_length == leftover \div 3
    IN  first2 + byte3_length

get(ts, index) ==
    LET offsets1 == ts.c1
        offsets2 == ts.c1 + ts.c2
    IN  IF index < offsets1
        THEN ts.buf[index + 1]
        ELSE IF index < offsets2
        THEN LET shift == (index - offsets1) * 2
                 i == ts.c1 + shift
                 b1 == ts.buf[i + 1]
                 b2 == ts.buf[i + 2] * 256
             IN  b1 + b2
        ELSE LET shift == (index - offsets2) * 3
                 i == ts.c1 + (ts.c2 * 2) + shift
                 b1 == ts.buf[i + 1]
                 b2 == ts.buf[i + 2] * 256
                 b3 == ts.buf[i + 3] * 65536
             IN  b1 + b2 + b3

\* a faulty add1, for comparison: the byte goes to the front of the segment
add1_front(ts, tok) ==
    [ts EXCEPT !.buf = VecInsert(ts.buf, 0, AsU8(tok)),
               !.c1 = ts.c1 + 1]

add1(ts, tok) ==
    [ts EXCEPT !.buf = VecInsert(ts.buf, ts.c1, AsU8(tok)),
               !.c1 = ts.c1 + 1]

\* a faulty add2, for comparison: the insert offset counts one byte for each
\* two-byte entry
add2_unscaled(ts, tok) ==
    [ts EXCEPT !.buf = VecInsert(VecInsert(ts.buf, ts.c1 + ts.c2, AsU8(tok)),
                                 ts.c1 + ts.c2 + 1, AsU8(tok \div 256)),
               !.c2 = ts.c2 + 1]

add2(ts, tok) ==
    LET byte1 == AsU8(tok)
        byte2 == tok \div 256
        insert == ts.c1 + ts.c2 * 2
    IN  [ts EXCEPT !.buf = VecInsert(VecInsert(ts.buf, insert, AsU8(byte1)),
                                     insert + 1, AsU8(byte2)),
                   !.c2 = ts.c2 + 1]

add3(ts, tok) ==
    LET byte1 == AsU8(tok)
        byte2 == tok \div 256
        byte3 == tok \div 65536
    IN  [ts EXCEPT !.buf = ts.buf \o <<AsU8(byte1), AsU8(byte2), AsU8(byte3)>>]

\* add: the panic branch (entry > 0x00FF_FFFF) is the guard CanAdd of the callers
CanAdd(entry) == entry <= Max3Byte

add(ts, entry) ==
    IF entry <= Max1Byte /\ ts.c1 < CounterCap
    THEN add1(ts, entry)
    ELSE IF entry <= Max2Byte /\ ts.c2 < CounterCap
    THEN add2(ts, entry)
    ELSE add3(ts, entry)

\* the elements in logical index order, get(0) .. get(length() - 1)
Contents(ts) ==
    SelectSeq([i \in 1..length(ts) |-> get(ts, i - 1)], LAMBDA x : TRUE)

(***************************************************************************)
(* Dict                                                                    *)
(***************************************************************************)

Dict_new == [tokenids |-> <<>>, entries |-> <<>>]

\* a faulty tokid, for comparison: a known token is given a new id all the same
tokid_always_new(d, token) ==
    [dict |-> [tokenids |-> (token :> Len(d.entries)) @@ d.tokenids,
               entries |-> Append(d.entries, token)],
     id |-> Len(d.entries)]

\* Dict::tokid, which returns the id and leaves the Dict changed or not:
\* [dict |-> the Dict after the call, id |-> the returned id].
\* `self.entries.len() as TokID` truncates to 32 bits, which changes nothing
\* below 2^32 entries.
tokid(d, token) ==
    IF token \in DOMAIN d.tokenids
    THEN [dict |-> d, id |-> d.tokenids[token]]
    ELSE LET id == Len(d.entries)
         IN  [dict |-> [tokenids |-> (token :> id) @@ d.tokenids,
                        entries |-> Append(d.entries, token)],
              id |-> id]

\* Dict::entry: Option<&Token>
entry(d, token_id) ==
    IF token_id < Len(d.entries) THEN Some(d.entries[token_id + 1]) ELSE None

(***************************************************************************)
(* TokenPaths, Entries, Chain::feed                                        *)
(***************************************************************************)

Forward == "Forward"
Reverse == "Reverse"

NextTokens_new == [forward |-> BufferTokSet_new, reverse |-> BufferTokSet_new]

TokenPaths_new == [maps |-> <<>>]

\* HashMap::entry(key).or_insert_with(make)
or_insert_with(map, key, make) ==
    IF key \in DOMAIN map THEN map ELSE (key :> make) @@ map

\* a faulty append, for comparison: the reverse value is not recorded
append_forward_only(paths, prefix, forward_value, reverse_value) ==
    LET maps == or_insert_with(paths.maps, prefix[1], <<>>)
        nested == or_insert_with(maps[prefix[1]], prefix[2], NextTokens_new)
        toksets == nested[prefix[2]]
        added == [toksets EXCEPT !.forward = add(toksets.forward, forward_value)]
    IN  [maps |-> [maps EXCEPT ![prefix[1]] = [nested EXCEPT ![prefix[2]] = added]]]

\* a faulty append, for comparison: the two values change places
append_swapped(paths, prefix, forward_value, reverse_value) ==
    LET maps == or_insert_with(paths.maps, prefix[1], <<>>)
        nested == or_insert_with(maps[prefix[1]], prefix[2], NextTokens_new)
        toksets == nested[prefix[2]]
        added == [forward |-> add(toksets.forward, reverse_value),
                  reverse |-> add(toksets.reverse, forward_value)]
    IN  [maps |-> [maps EXCEPT ![prefix[1]] = [nested EXCEPT ![prefix[2]] = added]]]

\* TokenPaths::append; a prefix is <<first, second>>
append(paths, prefix, forward_value, reverse_value) ==
    LET maps == or_insert_with(paths.maps, prefix[1], <<>>)
        nested == or_insert_with(maps[prefix[1]], prefix[2], NextTokens_new)
        toksets == nested[prefix[2]]
        added == [forward |-> add(toksets.forward, forward_value),
                  reverse |-> add(toksets.reverse, reverse_value)]
    IN  [maps |-> [maps EXCEPT ![prefix[1]] = [nested EXCEPT ![prefix[2]] = added]]]

\* TokenPaths::get: Option<&NextTokens>
paths_get(paths, prefix) ==
    IF prefix[1] \in DOMAIN paths.maps
    THEN IF prefix[2] \in DOMAIN paths.maps[prefix[1]]
         THEN Some(paths.maps[prefix[1]][prefix[2]])
         ELSE None
    ELSE None

Chain_new == [paths |-> TokenPaths_new, dict |-> Dict_new, entries |-> <<>>]

\* tokens.into_iter().map(|t| self.dict.tokid(&Some(t))), in order:
\* [dict |-> the Dict after the calls, ids |-> the ids]
RECURSIVE tokids(_, _)
tokids(d, tokens) ==
    IF tokens = <<>>
    THEN [dict |-> d, ids |-> <<>>]
    ELSE LET r == tokid(d, Some(Head(tokens)))
             rest == tokids(r.dict, Tail(tokens))
         IN  [dict |-> rest.dict, ids |-> <<r.id>> \o rest.ids]

\* the body of `for p in toks.windows(4)` for the window p = [a, b, c, d]
feed_window(c, p) ==
    LET prefix == <<p[2], p[3]>>
        eprefix == p[2]
        entries == or_insert_with(c.entries, eprefix, BufferTokSet_new)
    IN  [c EXCEPT !.paths = append(c.paths, prefix, p[4], p[1]),
                  !.entries = [entries EXCEPT ![eprefix] = add(entries[eprefix], p[3])]]

\* the loop over toks.windows(4), from the window that starts at index i
RECURSIVE feed_windows(_, _, _)
feed_windows(c, toks, i) ==
    IF i + 3 > Len(toks)
    THEN c
    ELSE feed_windows(feed_window(c, SubSeq(toks, i, i + 3)), toks, i + 1)

\* a faulty feed_toks, for comparison: no sentinel behind the last word
feed_toks_no_tail(c, tokens) ==
    [dict |-> tokids(tokid(c.dict, None).dict, tokens).dict,
     toks |-> <<tokid(c.dict, None).id, tokid(c.dict, None).id, tokid(c.dict, None).id>>
              \o tokids(tokid(c.dict, None).dict, tokens).ids]

\* the token ids Chain::feed builds: [dict, toks]
feed_toks(c, tokens) ==
    LET r0 == tokid(c.dict, None)
        none == r0.id
        r1 == tokids(r0.dict, tokens)
    IN  [dict |-> r1.dict, toks |-> <<none, none, none>> \o r1.ids \o <<none, none>>]

\* a faulty feed, for comparison: no early return for an empty token list
feed_always(c, tokens) ==
    feed_windows([c EXCEPT !.dict = feed_toks(c, tokens).dict],
                 feed_toks(c, tokens).toks, 1)

\* Chain::feed
feed(c, tokens) ==
    IF tokens = <<>>
    THEN c
    ELSE LET t == feed_toks(c, tokens)
         IN  feed_windows([c EXCEPT !.dict = t.dict], t.toks, 1)

\* str::split_whitespace from index i on, `word` being the word read so far
RECURSIVE split_from(_, _, _)
split_from(string, i, word) ==
    LET done == IF word = <<>> THEN <<>> ELSE <<word>>
    IN  IF i > Len(string)
        THEN done
        ELSE IF string[i] = Space
        THEN done \o split_from(string, i + 1, <<>>)
        ELSE split_from(string, i + 1, Append(word, string[i]))

split_whitespace(string) == split_from(string, 1, <<>>)

\* Chain::feed_str
feed_str(c, string) ==
    feed(c, SelectSeq(split_whitespace(string), LAMBDA word : word # <<>>))

\* feed panics ("4-byte entries not supported") when an id exceeds 0x00FF_FFFF
feed_str_panics(c, string) ==
    LET tokens == split_whitespace(string)
    IN  tokens # <<>> /\ \E id \in Range(feed_toks(c, tokens).toks) : ~CanAdd(id)

(***************************************************************************)
(* The random source.  ThreadRng is a stream of draws, [stream, pos]: the  *)
(* draws of `stream`, read cyclically from position pos.  gen_range(0, n)  *)
(* takes the next draw modulo n, so every index below n can come out.      *)
(***************************************************************************)

rng_draw(rng) == rng.stream[(rng.pos % Len(rng.stream)) + 1]
rng_advance(rng) == [rng EXCEPT !.pos = rng.pos + 1]

\* BufferTokSet::choose: [panic, value, rng]; gen_range(0, 0) panics
choose(ts, rng) ==
    IF length(ts) = 0
    THEN [panic |-> TRUE, value |-> 0, rng |-> rng]
    ELSE [panic |-> FALSE,
          value |-> get(ts, rng_draw(rng) % length(ts)),
          rng |-> rng_advance(rng)]

(***************************************************************************)
(* TokenIter and generation                                                *)
(***************************************************************************)

\* how many tokens one walk may emit; a longer walk is cut (`cut`) and the
\* call that makes it is left out of the model
MaxWalk == 4

\* (1..50): the number of candidates of one generate_best / generate_best_from
Attempts == 49

\* a sequence given as a function over 1..n, as a tuple
AsVec(f) == f \o <<>>

\* TokenPaths::iterator: a TokenIter over `paths`
iterator(direction, start, rng) ==
    [direction |-> direction, prefix |-> start, rng |-> rng]

\* a faulty TokenIter::next, for comparison: self.prefix is left as it was
next_choice_stuck(iter, r) ==
    [panic |-> r.panic,
     item |-> Some(r.value),
     iter |-> [iter EXCEPT !.rng = r.rng]]

\* TokenIter::next once m.choose has returned r = [panic, value, rng]
next_choice(iter, r) ==
    [panic |-> r.panic,
     item |-> Some(r.value),
     iter |-> [iter EXCEPT !.prefix = IF iter.direction = Forward
                                      THEN <<iter.prefix[2], r.value>>
                                      ELSE <<r.value, iter.prefix[1]>>,
                           !.rng = r.rng]]

\* TokenIter::next once self.paths.get(self.prefix) has returned Some(toksets)
next_in(iter, toksets) ==
    next_choice(iter, choose(IF iter.direction = Forward
                             THEN toksets.forward
                             ELSE toksets.reverse,
                             iter.rng))

\* TokenIter::next: [panic, item |-> Option<TokID>, iter |-> the TokenIter after]
TokenIter_next(paths, iter) ==
    IF paths_get(paths, iter.prefix) = None
    THEN [panic |-> FALSE, item |-> None, iter |-> iter]
    ELSE next_in(iter, Unwrap(paths_get(paths, iter.prefix)))

\* the two filter_map of generate_from_prefix on one id: the words it yields
id_words(d, x) ==
    IF IsSome(entry(d, x)) /\ IsSome(Unwrap(entry(d, x)))
    THEN <<Unwrap(Unwrap(entry(d, x)))>>
    ELSE <<>>

\* what a walk gives: [panic, cut, ids |-> the ids it emitted, words, rng]
Walk(panic, cut, rng) ==
    [panic |-> panic, cut |-> cut, ids |-> <<>>, words |-> <<>>, rng |-> rng]

\* the walk `rest` behind the emitted id `item`
extend_item(d, item, rest) ==
    [rest EXCEPT !.ids = <<item>> \o rest.ids,
                 !.words = id_words(d, item) \o rest.words]

\* `ret.extend(iter)`: pull from the TokenIter until it ends or yields
\* `none` (take_while), keeping the words of the ids (filter_map)
RECURSIVE extend_iter(_, _, _, _, _)

\* one pull, n being what TokenIter::next returned
extend_step(paths, d, none, fuel, n) ==
    IF n.panic
    THEN Walk(TRUE, FALSE, n.iter.rng)
    ELSE IF n.item = None \/ Unwrap(n.item) = none
    THEN Walk(FALSE, FALSE, n.iter.rng)
    ELSE IF fuel = 0
    THEN Walk(FALSE, TRUE, n.iter.rng)
    ELSE extend_item(d, Unwrap(n.item), extend_iter(paths, d, n.iter, none, fuel - 1))

extend_iter(paths, d, iter, none, fuel) ==
    extend_step(paths, d, none, fuel, TokenIter_next(paths, iter))

\* generate_from_prefix once the walk w is made, r0 being what
\* self.dict.tokid(&None) returned
prefix_ret(c, prefix, r0, w) ==
    [panic |-> w.panic, cut |-> w.cut,
     chain |-> [c EXCEPT !.dict = r0.dict],
     ret |-> id_words(r0.dict, prefix[1]) \o id_words(r0.dict, prefix[2]) \o w.words,
     walk |-> w.ids, rng |-> w.rng]

\* generate_from_prefix from `let none = self.dict.tokid(&None)` on
prefix_walk(c, dir, prefix, rng, r0) ==
    prefix_ret(c, prefix, r0,
               extend_iter(c.paths, r0.dict, iterator(dir, prefix, rng), r0.id, MaxWalk))

\* Chain::generate_from_prefix: [panic, cut, chain, ret, walk, rng], `walk`
\* being the ids the TokenIter emitted before the sentinel
generate_from_prefix(c, dir, prefix, rng) ==
    IF paths_get(c.paths, prefix) = None
    THEN [panic |-> FALSE, cut |-> FALSE, chain |-> c, ret |-> <<>>, walk |-> <<>>,
          rng |-> rng]
    ELSE prefix_walk(c, dir, prefix, rng, tokid(c.dict, None))

\* Chain::vec_to_string
RECURSIVE push_strs(_)
push_strs(vec) ==
    IF vec = <<>> THEN <<>> ELSE Head(vec) \o <<Space>> \o push_strs(Tail(vec))

truncate(ret) == IF Len(ret) > 0 THEN SubSeq(ret, 1, Len(ret) - 1) ELSE ret

vec_to_string(vec) == truncate(push_strs(vec))

\* Vec::pop, its result dropped
pop(vec) == IF vec = <<>> THEN vec ELSE SubSeq(vec, 1, Len(vec) - 1)

\* Vec::reverse
reverse(vec) == AsVec([i \in 1..Len(vec) |-> vec[Len(vec) + 1 - i]])

\* what one attempt returns: [panic, cut, chain, result |-> Option<String>,
\* rng] and, for what is said of an attempt, its context and the ids the two
\* walks emitted
Attempt(panic, cut, c, result, rng, prefix, fwalk, rwalk) ==
    [panic |-> panic, cut |-> cut, chain |-> c, result |-> result, rng |-> rng,
     prefix |-> prefix, fwalk |-> fwalk, rwalk |-> rwalk]

\* generate_one once generate_from_prefix has returned g
one_result(none, g) ==
    Attempt(g.panic, g.cut, g.chain, Some(vec_to_string(g.ret)), g.rng,
            Some(<<none, none>>), g.walk, <<>>)

\* generate_one once self.dict.tokid(&None) has returned r0
one_from_none(c, rng, r0) ==
    one_result(r0.id,
               generate_from_prefix([c EXCEPT !.dict = r0.dict], Forward,
                                    <<r0.id, r0.id>>, rng))

\* Chain::generate_one
generate_one(c, rng) == one_from_none(c, rng, tokid(c.dict, None))

\* generate_one_from once both walks are made: f forward, r reverse
one_from_result(prefix, f, r) ==
    Attempt(f.panic \/ r.panic, f.cut \/ r.cut, r.chain,
            Some(vec_to_string(pop(pop(reverse(r.ret))) \o f.ret)), r.rng,
            Some(prefix), f.walk, r.walk)

\* generate_one_from once the forward walk f is made
one_from_forward(prefix, f) ==
    one_from_result(prefix, f, generate_from_prefix(f.chain, Reverse, prefix, f.rng))

\* generate_one_from once possibles.choose(rng) has returned n
one_from_next(c, rng, s, n) ==
    IF n.panic
    THEN Attempt(TRUE, FALSE, c, None, rng, None, <<>>, <<>>)
    ELSE one_from_forward(<<s, n.value>>,
                          generate_from_prefix(c, Forward, <<s, n.value>>, n.rng))

\* a faulty generate_one_from, for comparison: a seed without an Entry
\* Index entry gives the seed word alone
one_from_start_alone(c, rng, s) ==
    IF s \in DOMAIN c.entries
    THEN one_from_next(c, rng, s, choose(c.entries[s], rng))
    ELSE Attempt(FALSE, FALSE, c, Some(vec_to_string(id_words(c.dict, s))), rng,
                 None, <<>>, <<>>)

\* generate_one_from once self.dict.tokid(&Some(start)) has returned s
one_from_start(c, rng, s) ==
    IF s \in DOMAIN c.entries
    THEN one_from_next(c, rng, s, choose(c.entries[s], rng))
    ELSE Attempt(FALSE, FALSE, c, None, rng, None, <<>>, <<>>)

\* generate_one_from once self.dict.tokid has returned r0
one_from_tokid(c, rng, r0) == one_from_start([c EXCEPT !.dict = r0.dict], rng, r0.id)

\* Chain::generate_one_from
generate_one_from(c, rng, start) == one_from_tokid(c, rng, tokid(c.dict, Some(start)))

(***************************************************************************)
(* Chain::choose_best, generate_best, generate_best_from                   *)
(***************************************************************************)

I32Max == 2147483647
I32Min == (-I32Max) - 1

\* a - b in i32 for a >= 0: [overflow, value]; the value wraps on overflow
\* (a - b - 2^32), which a build with overflow checks turns into a panic
sub_i32(a, b) ==
    IF b < a - I32Max
    THEN [overflow |-> TRUE, value |-> ((a - I32Max) - 1) - ((b + I32Max) + 1)]
    ELSE [overflow |-> FALSE, value |-> a - b]

\* i32::abs: [overflow, value]; abs(i32::MIN) overflows and wraps to i32::MIN
abs_i32(x) ==
    IF x = I32Min
    THEN [overflow |-> TRUE, value |-> I32Min]
    ELSE [overflow |-> FALSE, value |-> IF x < 0 THEN -x ELSE x]

\* .abs() of the difference d = [overflow, value]
abs_of(d) ==
    [overflow |-> d.overflow \/ abs_i32(d.value).overflow,
     value |-> abs_i32(d.value).value]

\* the sort key ((s.len() as i32) - target_chars).abs()
sort_key(str, target_chars) == abs_of(sub_i32(Len(str), target_chars))

\* the elements with their keys: [key |-> [overflow, value], s |-> the String]
keyed(v, target_chars) ==
    AsVec([i \in 1..Len(v) |-> [key |-> sort_key(v[i], target_chars), s |-> v[i]]])

\* slice::sort_by_key is a stable sort: the element at index i goes behind
\* the elements of smaller key and the earlier elements of equal key
rank(v, i) ==
    Cardinality({j \in 1..Len(v) : \/ v[j].key.value < v[i].key.value
                                   \/ v[j].key.value = v[i].key.value /\ j <= i})

ranks(v) == AsVec([i \in 1..Len(v) |-> rank(v, i)])

\* v in the order its ranks r give
in_order(v, r) == AsVec([p \in 1..Len(v) |-> v[CHOOSE i \in 1..Len(v) : r[i] = p]])

sort_by_key(v) == in_order(v, ranks(v))

\* gens.into_iter().filter_map(|o| o).collect()
unwrap_all(some) == AsVec([i \in 1..Len(some) |-> Unwrap(some[i])])
filter_map(gens) == unwrap_all(SelectSeq(gens, IsSome))

\* `if sorted.is_empty() { None } else { Some(sorted[0].clone()) }`
first_of(sorted) ==
    IF sorted = <<>>
    THEN [panic |-> FALSE, value |-> None]
    ELSE [panic |-> FALSE, value |-> Some(sorted[1].s)]

\* the sort and what follows it.  The sort computes the key of every element
\* when there are two or more; with overflow checks an overflowing key panics
choose_sorted(v, checks) ==
    IF checks /\ Len(v) >= 2 /\ \E i \in 1..Len(v) : v[i].key.overflow
    THEN [panic |-> TRUE, value |-> None]
    ELSE first_of(sort_by_key(v))

\* Chain::choose_best: [panic, value |-> Option<String>]
choose_best(gens, target_chars, checks) ==
    choose_sorted(keyed(filter_map(gens), target_chars), checks)

\* what is kept of an attempt a
Try(a) == [result |-> a.result, prefix |-> a.prefix, fwalk |-> a.fwalk, rwalk |-> a.rwalk]

\* (1..50).map(|_| ...).collect(): the next n attempts, made one after
\* another, each generate_one (seed = None) or generate_one_from
\* (seed = Some(start)): [panic, cut, chain, rng, tries |-> what each
\* attempt returned, in order].  An attempt that panics ends the call.
RECURSIVE collect(_, _, _, _)

collect_one(a) ==
    [panic |-> a.panic, cut |-> a.cut, chain |-> a.chain, rng |-> a.rng,
     tries |-> IF a.panic \/ a.cut THEN <<>> ELSE <<Try(a)>>]

collect_join(done, rest) == [rest EXCEPT !.tries = done.tries \o rest.tries]

\* the attempts `done` are made, m more follow
collect_then(done, seed, m) ==
    IF done.panic \/ done.cut
    THEN done
    ELSE collect_join(done, collect(done.chain, done.rng, seed, m))

collect(c, rng, seed, n) ==
    IF n = 0
    THEN [panic |-> FALSE, cut |-> FALSE, chain |-> c, rng |-> rng, tries |-> <<>>]
    ELSE IF n = 1
    THEN collect_one(IF seed = None
                     THEN generate_one(c, rng)
                     ELSE generate_one_from(c, rng, Unwrap(seed)))
    ELSE collect_then(collect(c, rng, seed, n \div 2), seed, n - (n \div 2))

\* the candidates of a call
Gens(tries) == AsVec([i \in 1..Len(tries) |-> tries[i].result])

\* what a call returns: [panic, cut, chain, tries, value]
best_of(g, b) ==
    [panic |-> b.panic, cut |-> FALSE, chain |-> g.chain, tries |-> g.tries,
     value |-> b.value]

\* a call once its candidates g are collected
best_from_gens(g, target_chars, checks) ==
    IF g.panic \/ g.cut
    THEN [panic |-> g.panic, cut |-> g.cut, chain |-> g.chain, tries |-> g.tries,
          value |-> None]
    ELSE best_of(g, choose_best(Gens(g.tries), target_chars, checks))

\* Chain::generate_best (seed = None) and Chain::generate_best_from
\* (seed = Some(start))
generate_best_from(c, seed, target_chars, rng, checks) ==
    best_from_gens(collect(c, rng, seed, Attempts), target_chars, checks)

(***************************************************************************)
(* Initial values.  Each specification drives one object and leaves the   *)
(* variables of the others at these values.                                *)
(***************************************************************************)

NoCall == [called |-> FALSE, token |-> None, id |-> 0, pre |-> Dict_new]

NoOp == [op |-> "new", line |-> <<>>, seed |-> None, target |-> 0,
         tries |-> <<>>, result |-> None, panic |-> FALSE, pre |-> Chain_new]

TokSetIdle == tokset = BufferTokSet_new /\ prefill = <<0, 0>> /\ adds = <<>>

DictIdle == dict = Dict_new /\ dlast = NoCall

ChainIdle ==
    /\ chain = Chain_new /\ overflow_checks = FALSE /\ corpus = <<>>
    /\ ngens = 0 /\ last = NoOp

\* the responder task before it is spawned
NoResponder == [pc |-> "recv", work |-> None, response |-> None, cause |-> "none"]

ServerIdle == clients = <<>> /\ rx_req = <<>> /\ responder = NoResponder /\ log = <<>>

NoIter == [direction |-> Forward, prefix |-> <<0, 0>>, rng |-> [stream |-> <<0>>, pos |-> 0]]

NoWalk == [pc |-> "collected", seed |-> None, start |-> <<0, 0>>, attempt |-> 0,
           emitted |-> 0]

WalkIdle == token_iter = NoIter /\ walk_call = NoWalk

(***************************************************************************)
(* SpecTokSet: one BufferTokSet driven by add.                             *)
(***************************************************************************)

\* how many ids a run adds after its initial state
MaxAdds == 2

\* ids on both sides of every magnitude limit
Ids == {7, 255, 256, 65535, 65536, 16777215}

\* The state of a set after n1 calls add(7) followed by n2 calls add(300),
\* for n1, n2 <= CounterCap: n1 one-byte entries 7, then n2 two-byte
\* little-endian entries 300 = 44 + 1 * 256.  Runs start from such states
\* because a counter reaches its cap only after 65535 insertions.
Filled(n1, n2) ==
    [buf |-> [i \in 1..n1 |-> 7]
             \o [i \in 1..(2 * n2) |-> IF i % 2 = 1 THEN 44 ELSE 1],
     c2 |-> n2, c1 |-> n1]

FilledHistory(n1, n2) == [i \in 1..n1 |-> 7] \o [i \in 1..n2 |-> 300]

Prefills ==
    {<<0, 0>>, <<CounterCap - 1, 0>>, <<0, CounterCap - 1>>,
     <<CounterCap, 1>>, <<CounterCap, CounterCap - 1>>}

TokSetInit ==
    \E n \in Prefills :
        /\ tokset = Filled(n[1], n[2])
        /\ prefill = n
        /\ adds = <<>>
        /\ DictIdle
        /\ ChainIdle
        /\ ServerIdle
        /\ WalkIdle

\* every id passed to add since BufferTokSet::new(), in call order
inserted == FilledHistory(prefill[1], prefill[2]) \o adds
nadds == Len(adds)

\* tokset.add_entry(entry); the call panics for entry > 0x00FF_FFFF
AddEntry ==
    \E tok \in Ids :
        /\ nadds < MaxAdds
        /\ CanAdd(tok)
        /\ tokset' = add(tokset, tok)
        /\ adds' = Append(adds, tok)
        /\ UNCHANGED <<prefill, dictVars, chainVars, serverVars, walkVars>>

TokSetNext == AddEntry

SpecTokSet == TokSetInit /\ [][TokSetNext]_vars


\* C8: length() is the number of insertions, and the values get(0) ..
\* get(length() - 1) are, as a multiset, exactly the inserted identifiers:
\* every identifier occurs among them as often as it was inserted, also
\* when a segment counter stands at its cap of 65535.
C8_LengthAndMultiset ==
    /\ length(tokset) = Len(inserted)
    /\ LET c == Contents(tokset)
       IN  \A v \in Range(inserted) \cup Ids : CountOf(c, v) = CountOf(inserted, v)

\* C8 witness: the first counter stands at its cap and a one-byte id and a
\* three-byte id were added after that.
C8_Witness ==
    /\ tokset.c1 = CounterCap
    /\ prefill[1] = CounterCap
    /\ nadds = MaxAdds
    /\ adds[1] <= Max1Byte
    /\ adds[2] > Max2Byte

\* the positions 1..Len(seq) whose element satisfies Test, in increasing order
Positions(seq, Test(_, _)) ==
    SelectSeq([i \in 1..Len(seq) |-> i] \o <<>>, LAMBDA i : Test(seq, i))

\* the last position taken by the first `cap` positions of pos (all of
\* them when there are at most `cap`)
LastWithin(pos, cap, len) == IF Len(pos) > cap THEN pos[cap] ELSE len

FirstN(pos, cap) == SubSeq(pos, 1, IF Len(pos) > cap THEN cap ELSE Len(pos))

At(seq, pos) == [k \in 1..Len(pos) |-> seq[pos[k]]] \o <<>>

\* the inserted ids of one magnitude class, in insertion order
Class1(seq) == SelectSeq(seq, LAMBDA x : x <= Max1Byte)
Class2(seq) == SelectSeq(seq, LAMBDA x : x > Max1Byte /\ x <= Max2Byte)
Class3(seq) == SelectSeq(seq, LAMBDA x : x > Max2Byte)

\* C9 as stated: the logical index order is all ids <= 255 in insertion
\* order, then all ids in (255, 65535], then all ids in (65535, 16777215],
\* however many entries were inserted before.
C9_OrderByMagnitudeAlone ==
    Contents(tokset) = Class1(inserted) \o Class2(inserted) \o Class3(inserted)

\* the ids of segment 1: the first 65535 ids <= 255
InSeg1(seq, i) == seq[i] <= Max1Byte
Seg1Pos(seq) == FirstN(Positions(seq, InSeg1), CounterCap)
Seg1Last(seq) == LastWithin(Positions(seq, InSeg1), CounterCap, Len(seq))

\* C9 amended: an id goes to the first segment that is wide enough for it and
\* whose counter is below 65535 when it is inserted.  Segment 1 holds the
\* first 65535 ids <= 255; segment 2 holds the first 65535 of the other ids
\* <= 65535 (larger ones and one-byte ids that found segment 1 full); segment
\* 3 holds every other id.  The logical index order is segment 1, segment 2,
\* segment 3, each in insertion order.
C9_SegmentOrder ==
    LET last1 == Seg1Last(inserted)
        Fits2(seq, i) == seq[i] <= Max2Byte /\ (seq[i] > Max1Byte \/ i > last1)
        pos2 == Positions(inserted, Fits2)
        last2 == LastWithin(pos2, CounterCap, Len(inserted))
        Rest(seq, i) == \/ seq[i] > Max2Byte
                        \/ seq[i] > Max1Byte /\ i > last2
                        \/ seq[i] <= Max1Byte /\ i > last1 /\ i > last2
    IN  Contents(tokset) =
            At(inserted, Seg1Pos(inserted))
            \o At(inserted, FirstN(pos2, CounterCap))
            \o At(inserted, Positions(inserted, Rest))

\* C9 witness: with the first counter at its cap, a one-byte id was added
\* (it went to segment 2) and then a two-byte id (it went behind it).
C9_Witness ==
    /\ prefill = <<CounterCap, 1>>
    /\ tokset.c1 = CounterCap
    /\ nadds = MaxAdds
    /\ adds[1] <= Max1Byte
    /\ adds[2] > Max1Byte /\ adds[2] <= Max2Byte
    /\ tokset.c2 = 3

(***************************************************************************)
(* SpecDict: one Dict driven by tokid.                                     *)
(***************************************************************************)

\* the tokens interned: the sentinel None, two words and the empty word
DictTokens == {None, Some(Word("a")), Some(Word("b")), Some(<<>>)}

DictInit ==
    /\ dict = Dict_new /\ dlast = NoCall
    /\ TokSetIdle /\ ChainIdle /\ ServerIdle /\ WalkIdle

Tokid ==
    \E token \in DictTokens :
        LET r == tokid(dict, token)
        IN  /\ dict' = r.dict
            /\ dlast' = [called |-> TRUE, token |-> token, id |-> r.id, pre |-> dict]
            /\ UNCHANGED <<toksetVars, chainVars, serverVars, walkVars>>

DictNext == Tokid

SpecDict == DictInit /\ [][DictNext]_vars

\* C10: interning a known string returns its id and changes nothing;
\* interning a new string returns the number of entries there were;
\* distinct strings have distinct ids; an id once assigned stays assigned to
\* its string; resolve(intern(s)) = s for every known s and
\* intern(resolve(id)) = id, with nothing changed, for every id in range.
C10_DictInvariant ==
    /\ dlast.called =>
        /\ dlast.token \in DOMAIN dlast.pre.tokenids =>
              dict = dlast.pre /\ dlast.id = dlast.pre.tokenids[dlast.token]
        /\ dlast.token \notin DOMAIN dlast.pre.tokenids =>
              /\ dlast.id = Len(dlast.pre.entries)
              /\ dlast.id = Cardinality(DOMAIN dlast.pre.tokenids)
        /\ \A t \in DOMAIN dlast.pre.tokenids :
              t \in DOMAIN dict.tokenids /\ dict.tokenids[t] = dlast.pre.tokenids[t]
        /\ \A i \in 1..Len(dlast.pre.entries) :
              i <= Len(dict.entries) /\ dict.entries[i] = dlast.pre.entries[i]
        /\ entry(dict, dlast.id) = Some(dlast.token)
    /\ \A s, t \in DOMAIN dict.tokenids :
          s # t => dict.tokenids[s] # dict.tokenids[t]
    /\ \A s \in DOMAIN dict.tokenids : entry(dict, dict.tokenids[s]) = Some(s)
    /\ \A id \in 0..(Len(dict.entries) - 1) :
          /\ IsSome(entry(dict, id))
          /\ tokid(dict, Unwrap(entry(dict, id))) = [dict |-> dict, id |-> id]
    /\ entry(dict, Len(dict.entries)) = None

\* C10 witness: a string interned earlier, not the first one, is interned
\* again after two more strings were added.
C10_Witness ==
    /\ dlast.called
    /\ dlast.token \in DOMAIN dlast.pre.tokenids
    /\ dlast.id = 1
    /\ Len(dict.entries) = 4

(***************************************************************************)
(* Spec: one Chain driven by feed_str, generate_best, generate_best_from.  *)
(***************************************************************************)

\* how many lines a run ingests and how many generate calls it makes
MaxFeeds == 2
MaxGens == 2

Lines == {<<"b", " ", "a", " ", "b">>, <<"a">>, <<" ">>}
Seeds == {<<"a">>, <<"b">>, <<"z">>, <<"b", " ", "a">>, <<>>}
Targets == {I32Min, 3}
Streams == {<<0>>, <<0, 1, 1>>, <<1, 0, 0, 1>>}

Init ==
    /\ chain = Chain_new
    /\ overflow_checks \in BOOLEAN
    /\ corpus = <<>>
    /\ ngens = 0
    /\ last = NoOp
    /\ TokSetIdle
    /\ DictIdle
    /\ ServerIdle
    /\ WalkIdle

\* index.feed_str(&line)
FeedStr ==
    \E line \in Lines :
        /\ ~last.panic
        /\ Len(corpus) < MaxFeeds
        /\ ~feed_str_panics(chain, line)
        /\ chain' = feed_str(chain, line)
        /\ corpus' = Append(corpus, line)
        /\ last' = [NoOp EXCEPT !.op = "feed_str", !.line = line, !.pre = chain]
        /\ UNCHANGED <<overflow_checks, ngens, toksetVars, dictVars, serverVars, walkVars>>

\* a generate call that returned g
Returned(op, seed, target, g) ==
    /\ ~g.cut
    /\ chain' = g.chain
    /\ ngens' = ngens + 1
    /\ last' = [op |-> op, line |-> <<>>, seed |-> seed, target |-> target,
                tries |-> g.tries, result |-> g.value, panic |-> g.panic,
                pre |-> chain]
    /\ UNCHANGED <<overflow_checks, corpus, toksetVars, dictVars, serverVars, walkVars>>

Generate(op, seed) ==
    \E target \in Targets, stream \in Streams :
        /\ ~last.panic
        /\ ngens < MaxGens
        /\ Returned(op, seed, target,
                    generate_best_from(chain, seed, target,
                                       [stream |-> stream, pos |-> 0],
                                       overflow_checks))

\* index.generate_best(target)
GenerateBest == Generate("generate_best", None)

\* index.generate_best_from(seed, target)
GenerateBestFrom == \E start \in Seeds : Generate("generate_best_from", Some(start))

Next == FeedStr \/ GenerateBest \/ GenerateBestFrom

Spec == Init /\ [][Next]_vars

(***************************************************************************)
(* Properties of Spec.  `last` records the latest call: its inputs, the    *)
(* Chain before it (pre), what it returned (result, panic) and, for a      *)
(* generate call, what each of its attempts returned (tries).              *)
(***************************************************************************)

IsGenerate == last.op \in {"generate_best", "generate_best_from"}

\* the words of the lines ingested so far
Ingested == UNION {Range(split_whitespace(corpus[i])) : i \in DOMAIN corpus}

IsPresent(i) == IsSome(last.tries[i].result)

CandidateLen(i) == Len(Unwrap(last.tries[i].result))

Abs(x) == IF x < 0 THEN -x ELSE x

\* |l1 - target| <= |l2 - target| for lengths l1, l2 >= 0, in the integers:
\* below a target <= 0 the difference grows with the length
NotFarther(l1, l2, target) ==
    IF target <= 0 THEN l1 <= l2 ELSE Abs(l1 - target) <= Abs(l2 - target)

\* candidate i is the earliest of the present candidates nearest to the target
IsBest(i) ==
    /\ IsPresent(i)
    /\ \A j \in DOMAIN last.tries :
          IsPresent(j) => NotFarther(CandidateLen(i), CandidateLen(j), last.target)
    /\ \A j \in 1..(i - 1) :
          IsPresent(j) => ~NotFarther(CandidateLen(j), CandidateLen(i), last.target)

\* C1: a generate call makes 49 candidates and returns None if and only if
\* every candidate is absent; otherwise it returns the earliest of the
\* present candidates whose length is nearest to the target length.
C1_BestOfN ==
    IsGenerate =>
        /\ ~last.panic
        /\ Len(last.tries) = Attempts
        /\ (last.result = None) <=> (\A i \in DOMAIN last.tries : ~IsPresent(i))
        /\ \A i \in DOMAIN last.tries : IsBest(i) => last.result = last.tries[i].result

\* the part of C1 that holds: when no sort key overflows an i32, which is
\* so for every target above i32::MIN + the longest candidate's length
C1_WithoutOverflow ==
    (IsGenerate /\ \A i \in DOMAIN last.tries :
                      IsPresent(i) => last.target >= (CandidateLen(i) - I32Max)) =>
        /\ ~last.panic
        /\ Len(last.tries) = Attempts
        /\ (last.result = None) <=> (\A i \in DOMAIN last.tries : ~IsPresent(i))
        /\ \A i \in DOMAIN last.tries : IsBest(i) => last.result = last.tries[i].result

\* a build without overflow checks returns a candidate that is farther from
\* the target than another one
C1_FartherReturned ==
    /\ IsGenerate /\ ~overflow_checks /\ ~last.panic
    /\ \E i \in DOMAIN last.tries, j \in DOMAIN last.tries :
          /\ IsPresent(i) /\ IsPresent(j)
          /\ last.result = last.tries[i].result
          /\ ~NotFarther(CandidateLen(i), CandidateLen(j), last.target)

\* a call with candidates of two lengths as near to the target as each other
C1_TieReached ==
    /\ IsGenerate /\ ~last.panic /\ last.target = 3
    /\ \E i \in DOMAIN last.tries, j \in DOMAIN last.tries :
          /\ IsPresent(i) /\ IsPresent(j) /\ i < j
          /\ CandidateLen(i) > CandidateLen(j)
          /\ IsBest(i)
          /\ NotFarther(CandidateLen(j), CandidateLen(i), last.target)

\* the words of the ids `ids`, resolved in the Dictionary after the call
RECURSIVE WordsOf(_)
WordsOf(ids) ==
    IF ids = <<>> THEN <<>> ELSE id_words(chain.dict, Head(ids)) \o WordsOf(Tail(ids))

Sentinel == chain.dict.tokenids[None]

IsOneWord(string) == split_whitespace(string) = <<string>>

\* what C2 says a seeded attempt with context (s, n) produces
Assembled(try) ==
    LET s == Unwrap(try.prefix)[1]
        n == Unwrap(try.prefix)[2]
        seed_tokens == IF n = Sentinel THEN <<s>> ELSE <<s, n>>
    IN  vec_to_string(WordsOf(reverse(try.rwalk)) \o WordsOf(seed_tokens)
                      \o WordsOf(try.fwalk))

\* C2: an attempt with a one-word seed s and sampled successor n produces
\* the reverse walk from (s, n) reversed, then the seed tokens (s, and n when
\* n is not the sentinel), then the forward walk from (s, n), and drops,
\* repeats or reorders no token of a walk, also when n is the sentinel.
C2_SeededAssembly ==
    (last.op = "generate_best_from" /\ IsOneWord(Unwrap(last.seed))) =>
        \A i \in DOMAIN last.tries :
            IsSome(last.tries[i].prefix) =>
                last.tries[i].result = Some(Assembled(last.tries[i]))

\* the case of C2 in which the successor is a word: there the two tokens
\* popped are the seed's two
C2_WordSuccessor ==
    (last.op = "generate_best_from" /\ IsOneWord(Unwrap(last.seed))) =>
        \A i \in DOMAIN last.tries :
            (IsSome(last.tries[i].prefix) /\ Unwrap(last.tries[i].prefix)[2] # Sentinel) =>
                last.tries[i].result = Some(Assembled(last.tries[i]))

IsUnknownSeedCall ==
    /\ last.op = "generate_best_from"
    /\ IsOneWord(Unwrap(last.seed))
    /\ Unwrap(last.seed) \notin Ingested

\* C3: after any ingestions and generations, a generate call whose seed
\* word is in no ingested line returns None, without a panic and with every
\* candidate absent, also when the same seed was asked for before.
C3_UnknownSeedIsNone ==
    IsUnknownSeedCall =>
        /\ ~last.panic
        /\ last.result = None
        /\ Len(last.tries) = Attempts
        /\ \A i \in DOMAIN last.tries : last.tries[i].result = None

\* a second call with the unknown seed, on a Chain that has ingested words
C3_Witness ==
    /\ IsUnknownSeedCall
    /\ ngens = 2
    /\ last.seed \in DOMAIN last.pre.dict.tokenids
    /\ Ingested # {}
    /\ last.result = None

\* C4: a generate call leaves the Dictionary, the Transition Index and the
\* Entry Index as they were before it.
C4_GenerateLeavesChain ==
    IsGenerate =>
        /\ chain.dict = last.pre.dict
        /\ chain.paths = last.pre.paths
        /\ chain.entries = last.pre.entries

\* the part of C4 that holds: the two indexes are left alone
C4_IndexesUnchanged ==
    IsGenerate =>
        /\ chain.paths = last.pre.paths
        /\ chain.entries = last.pre.entries

\* C5: generate without a seed returns None on a Chain into which nothing
\* has been ingested, and Some non-empty string on a Chain that has ingested
\* a line with a word in it.
C5_NoSeed ==
    last.op = "generate_best" =>
        /\ corpus = <<>> => (~last.panic /\ last.result = None)
        /\ Ingested # {} =>
              (~last.panic /\ IsSome(last.result) /\ Unwrap(last.result) # <<>>)

\* s occurs in v as a contiguous run
IsRunOf(s, v) ==
    \E k \in 0..(Len(v) - Len(s)) : SubSeq(v, k + 1, k + Len(s)) = s

\* the words of the seed occur one after the other in an ingested line
IsIngestedPhrase(seed) ==
    /\ Len(split_whitespace(seed)) >= 2
    /\ \E i \in DOMAIN corpus :
          IsRunOf(split_whitespace(seed), split_whitespace(corpus[i]))

\* the ids of the words of a seed
SeedIds(seed) ==
    [k \in 1..Len(split_whitespace(seed)) |->
        chain.dict.tokenids[Some(split_whitespace(seed)[k])]]

\* C6: a seed of two or more words that occur one after the other in an
\* ingested line gives Some string in which the seed is a contiguous run of
\* words, every attempt walking from the context of the seed's first two
\* tokens (reverse) and last two tokens (forward).
C6_MultiWordSeed ==
    (last.op = "generate_best_from" /\ IsIngestedPhrase(Unwrap(last.seed))) =>
        /\ ~last.panic
        /\ IsSome(last.result)
        /\ IsRunOf(split_whitespace(Unwrap(last.seed)),
                   split_whitespace(Unwrap(last.result)))
        /\ \A i \in DOMAIN last.tries :
              last.tries[i].prefix =
                  Some(<<SeedIds(Unwrap(last.seed))[1], SeedIds(Unwrap(last.seed))[2]>>)

\* the ids in use after the call
AllIds == 0..(Len(chain.dict.entries) - 1)

\* the multisets of a Chain, an absent one being empty
ForwardOf(c, b, d) ==
    IF paths_get(c.paths, <<b, d>>) = None
    THEN <<>>
    ELSE Contents(Unwrap(paths_get(c.paths, <<b, d>>)).forward)

ReverseOf(c, b, d) ==
    IF paths_get(c.paths, <<b, d>>) = None
    THEN <<>>
    ELSE Contents(Unwrap(paths_get(c.paths, <<b, d>>)).reverse)

EntriesOf(c, b) == IF b \in DOMAIN c.entries THEN Contents(c.entries[b]) ELSE <<>>

\* [sentinel, sentinel, sentinel, t1, ..., tn, sentinel, sentinel] of a line
Padded(line) ==
    <<Sentinel, Sentinel, Sentinel>>
        \o [k \in 1..Len(split_whitespace(line)) |->
               chain.dict.tokenids[Some(split_whitespace(line)[k])]]
        \o <<Sentinel, Sentinel>>

\* how many 4-token windows (a, b, c, d) of p satisfy Test
Windows(p, Test(_, _, _, _)) ==
    Cardinality({k \in 1..(Len(p) - 3) : Test(p[k], p[k + 1], p[k + 2], p[k + 3])})

\* the one multiset `after` is `before` with `more` occurrences of v added,
\* for the values v, and has nothing else
Grown(before, after, more(_)) ==
    /\ \A v \in AllIds : CountOf(after, v) = CountOf(before, v) + more(v)
    /\ Range(after) \subseteq AllIds

\* C7: ingesting a line of words t1..tn, n >= 1, adds, for every 4-token
\* window (a, b, c, d) of the padded line, one d to the forward multiset of
\* (b, c), one a to the reverse multiset of (b, c) and one c to the Entry
\* Index multiset of b, and changes no other multiset.
C7_FeedWindows ==
    (last.op = "feed_str" /\ split_whitespace(last.line) # <<>>) =>
        LET p == Padded(last.line)
        IN  /\ \A x \in DOMAIN chain.paths.maps :
                  x \in AllIds /\ DOMAIN chain.paths.maps[x] \subseteq AllIds
            /\ DOMAIN chain.entries \subseteq AllIds
            /\ \A b \in AllIds, c \in AllIds :
                  /\ Grown(ForwardOf(last.pre, b, c), ForwardOf(chain, b, c),
                           LAMBDA v : Windows(p, LAMBDA w, x, y, z :
                                                     x = b /\ y = c /\ z = v))
                  /\ Grown(ReverseOf(last.pre, b, c), ReverseOf(chain, b, c),
                           LAMBDA v : Windows(p, LAMBDA w, x, y, z :
                                                     x = b /\ y = c /\ w = v))
            /\ \A b \in AllIds :
                  Grown(EntriesOf(last.pre, b), EntriesOf(chain, b),
                        LAMBDA v : Windows(p, LAMBDA w, x, y, z : x = b /\ y = v))

\* a second line, with a word seen before, ingested after a generate call
C7_Witness ==
    /\ last.op = "feed_str"
    /\ last.line = <<"b", " ", "a", " ", "b">>
    /\ ngens > 0
    /\ Len(corpus) = 2
    /\ Len(ForwardOf(chain, Sentinel, Sentinel)) = 2
    /\ Len(EntriesOf(chain, chain.dict.tokenids[Some(Word("b"))])) >= 2

\* C11: in every state reachable from a new Chain by ingest and generate
\* calls in any order, the sentinel, once in the Dictionary, has id 0 and no
\* word has id 0.
C11_SentinelIsZero ==
    /\ None \in DOMAIN chain.dict.tokenids => chain.dict.tokenids[None] = 0
    /\ \A t \in DOMAIN chain.dict.tokenids : t # None => chain.dict.tokenids[t] # 0

\* the part of C11 that holds: in the states reached by ingestion alone
C11_ByIngestionAlone == ngens = 0 => C11_SentinelIsZero

\* a string cut at every space: the fragments, the empty ones included
RECURSIVE fragments_from(_, _, _)
fragments_from(string, i, word) ==
    IF i > Len(string)
    THEN <<word>>
    ELSE IF string[i] = Space
    THEN <<word>> \o fragments_from(string, i + 1, <<>>)
    ELSE fragments_from(string, i + 1, Append(word, string[i]))

Fragments(string) == fragments_from(string, 1, <<>>)

IsKnownSeedCall ==
    /\ last.op = "generate_best_from"
    /\ IsOneWord(Unwrap(last.seed))
    /\ Unwrap(last.seed) \in Ingested

\* the result is a string of ingested words, the seed among them
IsClosed ==
    /\ IsSome(last.result)
    /\ Unwrap(last.seed) \in Range(Fragments(Unwrap(last.result)))
    /\ Range(Fragments(Unwrap(last.result))) \subseteq Ingested

\* C12: a generate call whose seed word occurs in an ingested line returns
\* Some string that contains the seed word and consists of words of ingested
\* lines alone, separated by single spaces (no foreign word, no empty word).
C12_ClosedVocabulary == IsKnownSeedCall => (~last.panic /\ IsClosed)

\* the part of C12 that holds: a call that returns, returns such a string
C12_WhenReturned == (IsKnownSeedCall /\ ~last.panic) => IsClosed

\* a call with a known seed made after a call that left an unknown seed in
\* the Dictionary, returning a string shorter than the line it came from
C12_Reached ==
    /\ IsKnownSeedCall /\ ~last.panic /\ IsClosed
    /\ Some(<<"z">>) \in DOMAIN last.pre.dict.tokenids
    /\ Len(Unwrap(last.result)) = 3

IsBlankFeed == last.op = "feed_str" /\ split_whitespace(last.line) = <<>>

\* C14: ingesting a line without a word changes nothing: the Dictionary
\* (the sentinel is not interned), the Transition Index and the Entry Index
\* are as before, and no error is raised, whatever the Chain held.
C14_BlankLineIsNoOp ==
    IsBlankFeed =>
        /\ ~last.panic
        /\ chain.dict = last.pre.dict
        /\ chain.paths = last.pre.paths
        /\ chain.entries = last.pre.entries

\* a blank line was ingested by a Chain that has interned nothing, and the
\* Dictionary is still empty
C14_Witness ==
    /\ IsBlankFeed
    /\ last.pre = Chain_new
    /\ chain.dict.entries = <<>>
    /\ corpus = << <<" ">> >>

\* the contexts present in the Transition Index
Contexts(c) ==
    {p \in (DOMAIN c.paths.maps) \X (UNION {DOMAIN c.paths.maps[b] : b \in DOMAIN c.paths.maps}) :
        p[2] \in DOMAIN c.paths.maps[p[1]]}

\* C15: every context of the Transition Index has a forward and a reverse
\* multiset of the same count, at least 1, and every token of the Entry
\* Index has a multiset of count at least 1; so no attempt of a generate call
\* ends in a draw from an empty multiset (each call makes its 49 attempts).
C15_NoEmptyMultiset ==
    /\ \A p \in Contexts(chain) :
          /\ length(chain.paths.maps[p[1]][p[2]].forward)
                = length(chain.paths.maps[p[1]][p[2]].reverse)
          /\ length(chain.paths.maps[p[1]][p[2]].forward) >= 1
    /\ \A b \in DOMAIN chain.entries : length(chain.entries[b]) >= 1
    /\ IsGenerate => Len(last.tries) = Attempts

\* a generate call with a known seed on a Chain with a context seen twice
C15_Witness ==
    /\ IsKnownSeedCall
    /\ Len(corpus) = 2
    /\ \E p \in Contexts(chain) : length(chain.paths.maps[p[1]][p[2]].forward) = 2
    /\ Cardinality(Contexts(chain)) >= 4

\* C17: a seed without a word (empty or blank) is treated like no seed:
\* every attempt starts from the context (sentinel, sentinel), and on a
\* Chain that has ingested words the call returns Some string.
C17_ZeroWordSeed ==
    (last.op = "generate_best_from" /\ split_whitespace(Unwrap(last.seed)) = <<>>) =>
        /\ ~last.panic
        /\ \A i \in DOMAIN last.tries :
              /\ IsSome(last.tries[i].prefix)
              /\ entry(chain.dict, Unwrap(last.tries[i].prefix)[1]) = Some(None)
              /\ entry(chain.dict, Unwrap(last.tries[i].prefix)[2]) = Some(None)
        /\ Ingested # {} => IsSome(last.result)

IsSentinel(id) == entry(chain.dict, id) = Some(None)

HasContext(b, c) == paths_get(chain.paths, <<b, c>>) # None

\* the context a forward walk from `prefix` stood in when it ended, the ids
\* `walk` being what it emitted, and the same for a reverse walk
ForwardEnd(prefix, walk) ==
    <<(prefix \o walk)[Len(walk) + 1], (prefix \o walk)[Len(walk) + 2]>>

ReverseEnd(prefix, walk) ==
    <<(<<prefix[2], prefix[1]>> \o walk)[Len(walk) + 2],
      (<<prefix[2], prefix[1]>> \o walk)[Len(walk) + 1]>>

\* C18: (1) for every token b and every c in the Entry Index multiset of b
\* the context (b, c) is present; (2) for every context (b, c) and every d
\* other than the sentinel in its forward multiset the context (c, d) is
\* present; (3) for every context (b, c) and every a other than the sentinel
\* in its reverse multiset the context (a, b) is present.  So the two walks
\* of an attempt started from a one-word seed end in a context that is
\* present: they stop by drawing the sentinel, not at an unseen context.
C18_IndexClosure ==
    /\ \A b \in DOMAIN chain.entries :
          \A c \in Range(Contents(chain.entries[b])) : HasContext(b, c)
    /\ \A p \in Contexts(chain) :
          /\ \A d \in Range(Contents(chain.paths.maps[p[1]][p[2]].forward)) :
                ~IsSentinel(d) => HasContext(p[2], d)
          /\ \A a \in Range(Contents(chain.paths.maps[p[1]][p[2]].reverse)) :
                ~IsSentinel(a) => HasContext(a, p[1])
    /\ (last.op = "generate_best_from" /\ IsOneWord(Unwrap(last.seed))) =>
          \A i \in DOMAIN last.tries :
              IsSome(last.tries[i].prefix) =>
                  /\ paths_get(chain.paths,
                               ForwardEnd(Unwrap(last.tries[i].prefix),
                                          last.tries[i].fwalk)) # None
                  /\ paths_get(chain.paths,
                               ReverseEnd(Unwrap(last.tries[i].prefix),
                                          last.tries[i].rwalk)) # None

\* two lines with words were ingested, and a context between two words has
\* a word before it and a word behind it
C18_Witness ==
    /\ Len(corpus) = 2
    /\ last.op = "generate_best_from" /\ IsOneWord(Unwrap(last.seed))
    /\ \E i \in DOMAIN last.tries : Len(last.tries[i].fwalk) >= 1
    /\ \E i \in DOMAIN last.tries : Len(last.tries[i].rwalk) >= 1
    /\ Cardinality(Ingested) = 2
    /\ \E p \in Contexts(chain) :
          /\ ~IsSentinel(p[1]) /\ ~IsSentinel(p[2])
          /\ \E d \in Range(Contents(chain.paths.maps[p[1]][p[2]].forward)) : ~IsSentinel(d)
    /\ \E p \in Contexts(chain) :
          /\ ~IsSentinel(p[1]) /\ ~IsSentinel(p[2])
          /\ \E a \in Range(Contents(chain.paths.maps[p[1]][p[2]].reverse)) : ~IsSentinel(a)

(***************************************************************************)
(* SpecServer: main.rs, the responder task that owns the Chain and the     *)
(* calls of respond that send it requests.  A step is what a task does     *)
(* between two .await.                                                     *)
(***************************************************************************)

\* how many calls of respond a run makes
NClients == 3

\* mpsc::channel::<MarkovRequestMessage>(100), mpsc::channel::<MarkovResponse>(1)
QueueCap == 100
RespCap == 1

\* req.target.unwrap_or(20)
DefaultTarget == 20

Client == 1..NClients

\* the MarkovRequest values the clients send, and the one client c sends
Requests ==
    <<[seed |-> None, target |-> None],
      [seed |-> Some(<<"a">>), target |-> Some(3)],
      [seed |-> Some(<<"b">>), target |-> Some(I32Min)]>>

RequestOf(c) == Requests[((c - 1) % Len(Requests)) + 1]

\* the input file setup_index feeds before the responder is spawned
IndexLines == {<<"b", " ", "a", " ", "b">>}

ServerStreams == {<<0>>, <<0, 1, 1>>}

\* a call of respond not yet made.  buf, rx_resp and tx_resp are the
\* response channel of the call: what it holds, whether its Receiver is
\* alive and whether its Sender is alive.
NoClient ==
    [pc |-> "start", req |-> [seed |-> None, target |-> None],
     buf |-> <<>>, rx_resp |-> FALSE, tx_resp |-> FALSE, got |-> None]

unwrap_or(o, default) == IF IsSome(o) THEN Unwrap(o) ELSE default

ServerInit ==
    /\ \E line \in IndexLines :
          /\ chain = feed_str(Chain_new, line)
          /\ corpus = <<line>>
    /\ overflow_checks \in BOOLEAN
    /\ ngens = 0
    /\ last = NoOp
    /\ clients = [c \in Client |-> NoClient]
    /\ rx_req = <<>>
    /\ responder = NoResponder
    /\ log = <<>>
    /\ TokSetIdle
    /\ DictIdle
    /\ WalkIdle

Event(ev, id) == [ev |-> ev, id |-> id]

\* respond up to rx_resp.recv().await: the response channel is made and the
\* request sent with its Sender; the send fails once the responder is gone
\* and expect("Oh noes") panics
Respond(c) ==
    \E req \in {RequestOf(c)} :
        /\ clients[c].pc = "start"
        /\ IF responder.pc = "dead"
           THEN /\ clients' = [clients EXCEPT ![c] = [@ EXCEPT !.pc = "panicked",
                                                               !.req = req]]
                /\ UNCHANGED <<rx_req, log>>
           ELSE /\ Len(rx_req) < QueueCap
                /\ clients' = [clients EXCEPT ![c] = [@ EXCEPT !.pc = "recv",
                                                               !.req = req,
                                                               !.rx_resp = TRUE,
                                                               !.tx_resp = TRUE]]
                /\ rx_req' = Append(rx_req, [id |-> c, req |-> req])
                /\ log' = Append(log, Event("enqueue", c))
        /\ UNCHANGED <<responder, chainVars, toksetVars, dictVars, walkVars>>

\* respond from rx_resp.recv().await on: the response is returned, or recv
\* gives None because the Sender was dropped and resp.unwrap() panics
RespondRecv(c) ==
    /\ clients[c].pc = "recv"
    /\ IF clients[c].buf # <<>>
       THEN clients' = [clients EXCEPT ![c] = [@ EXCEPT !.pc = "done",
                                                        !.got = Some(Head(clients[c].buf)),
                                                        !.buf = <<>>,
                                                        !.rx_resp = FALSE]]
       ELSE /\ ~clients[c].tx_resp
            /\ clients' = [clients EXCEPT ![c] = [@ EXCEPT !.pc = "panicked",
                                                           !.rx_resp = FALSE]]
    /\ UNCHANGED <<rx_req, responder, log, chainVars, toksetVars, dictVars, walkVars>>

\* the future of respond is dropped while it waits in rx_resp.recv().await
\* (the HTTP client went away): its Receiver is dropped with it
RespondDropped(c) ==
    /\ clients[c].pc = "recv"
    /\ clients' = [clients EXCEPT ![c] = [@ EXCEPT !.pc = "dropped",
                                                   !.buf = <<>>,
                                                   !.rx_resp = FALSE]]
    /\ UNCHANGED <<rx_req, responder, log, chainVars, toksetVars, dictVars, walkVars>>

\* a faulty recv, for comparison: the newest message is taken
recv_newest(queue) ==
    [item |-> queue[Len(queue)], rest |-> SubSeq(queue, 1, Len(queue) - 1)]

\* rx_req.recv() on a channel that holds a message: [item, rest]
recv(queue) == [item |-> Head(queue), rest |-> Tail(queue)]

\* while let Some(work) = rx_req.recv().await
ResponderRecv ==
    /\ responder.pc = "recv"
    /\ rx_req # <<>>
    /\ responder' = [responder EXCEPT !.pc = "generate",
                                      !.work = Some(recv(rx_req).item)]
    /\ rx_req' = recv(rx_req).rest
    /\ log' = Append(log, Event("recv", recv(rx_req).item.id))
    /\ UNCHANGED <<clients, chainVars, toksetVars, dictVars, walkVars>>

\* the ids of the requests whose Sender the responder task owns: the one of
\* its `work` and those of the messages in rx_req
Owned == {Unwrap(responder.work).id} \cup {rx_req[i].id : i \in DOMAIN rx_req}

\* the responder task panics: `work` and rx_req are dropped, and with them
\* the Senders of the response channels they hold
Panicked(cause) ==
    /\ responder' = [pc |-> "dead", work |-> None, response |-> None, cause |-> cause]
    /\ clients' = [c \in Client |->
                      IF c \in Owned THEN [clients[c] EXCEPT !.tx_resp = FALSE]
                                     ELSE clients[c]]
    /\ rx_req' = <<>>

\* the MarkovResponse of a generate call that returned `value`, with the
\* request it was computed from and the seed and target the call was given
MarkovResponse(value, work) ==
    [response |-> value, id |-> work.id, seed |-> work.req.seed,
     target |-> unwrap_or(work.req.target, DefaultTarget)]

\* the responder once the generate call for `work` has returned g
Generated(work, g) ==
    /\ ~g.cut
    /\ chain' = g.chain
    /\ log' = Append(log, Event("generate", work.id))
    /\ IF g.panic
       THEN Panicked("generate")
       ELSE /\ responder' = [responder EXCEPT
                                !.pc = "send",
                                !.response = Some(MarkovResponse(g.value, work))]
            /\ UNCHANGED <<clients, rx_req>>
    /\ UNCHANGED <<overflow_checks, corpus, ngens, last, toksetVars, dictVars, walkVars>>

\* let target = ...; let response = match req.seed { ... }
ResponderGenerate ==
    \E stream \in ServerStreams :
        /\ responder.pc = "generate"
        /\ Generated(Unwrap(responder.work),
                     generate_best_from(chain, Unwrap(responder.work).req.seed,
                                        unwrap_or(Unwrap(responder.work).req.target,
                                                  DefaultTarget),
                                        [stream |-> stream, pos |-> 0],
                                        overflow_checks))

\* tx_resp.send(MarkovResponse { response }).await.expect("what?"), and
\* tx_resp dropped at the end of the loop body; the send fails when the
\* Receiver was dropped
ResponderSend ==
    /\ responder.pc = "send"
    /\ IF clients[Unwrap(responder.work).id].rx_resp
       THEN /\ Len(clients[Unwrap(responder.work).id].buf) < RespCap
            /\ clients' = [clients EXCEPT ![Unwrap(responder.work).id] =
                              [@ EXCEPT !.buf = Append(@, Unwrap(responder.response)),
                                        !.tx_resp = FALSE]]
            /\ responder' = NoResponder
            /\ log' = Append(log, Event("send", Unwrap(responder.work).id))
            /\ UNCHANGED rx_req
       ELSE /\ Panicked("send")
            /\ UNCHANGED log
    /\ UNCHANGED <<chainVars, toksetVars, dictVars, walkVars>>

ServerNext ==
    \/ \E c \in Client : Respond(c)
    \/ \E c \in Client : RespondRecv(c)
    \/ \E c \in Client : RespondDropped(c)
    \/ ResponderRecv
    \/ ResponderGenerate
    \/ ResponderSend

SpecServer == ServerInit /\ [][ServerNext]_vars

\* the tokio runtime polls a task that can make a step, and a generate call
\* the responder has started returns or panics: the responder does not stay
\* in it for ever
SpecServerFair ==
    /\ SpecServer
    /\ WF_vars(ResponderRecv)
    /\ []<>(responder.pc # "generate")
    /\ WF_vars(ResponderSend)
    /\ \A c \in Client : WF_vars(RespondRecv(c))

IdsOf(events) == AsVec([i \in 1..Len(events) |-> events[i].id])

\* the requests in the order they were sent to rx_req, and in the order the
\* responder received them
Enqueued == IdsOf(SelectSeq(log, LAMBDA e : e.ev = "enqueue"))
Received == IdsOf(SelectSeq(log, LAMBDA e : e.ev = "recv"))

\* the steps of the responder, in order
Steps == SelectSeq(log, LAMBDA e : e.ev # "enqueue")

\* a response was computed from the request of client c
IsFor(c, msg) ==
    /\ msg.id = c
    /\ msg.seed = clients[c].req.seed
    /\ msg.target = unwrap_or(clients[c].req.target, DefaultTarget)

\* C13: the responder receives the requests one at a time in the order they
\* were sent; it receives a request only after it has sent the response of
\* the one before, and generates only for the request it has just received;
\* every response in a response channel or returned by respond was computed
\* from the seed and target of the request of that call.
C13_SerializedWorker ==
    /\ Len(Received) <= Len(Enqueued)
    /\ Received = SubSeq(Enqueued, 1, Len(Received))
    /\ responder.pc # "dead" =>
          IdsOf(rx_req) = SubSeq(Enqueued, Len(Received) + 1, Len(Enqueued))
    /\ \A i \in DOMAIN Steps :
          /\ Steps[i].ev = "recv" => (i = 1 \/ Steps[i - 1].ev = "send")
          /\ Steps[i].ev = "generate" => (i > 1 /\ Steps[i - 1] = Event("recv", Steps[i].id))
          /\ Steps[i].ev = "send" => (i > 1 /\ Steps[i - 1] = Event("generate", Steps[i].id))
    /\ IsSome(responder.work) =>
          Unwrap(responder.work).req = clients[Unwrap(responder.work).id].req
    /\ IsSome(responder.response) =>
          IsFor(Unwrap(responder.work).id, Unwrap(responder.response))
    /\ \A c \in Client :
          /\ \A i \in DOMAIN clients[c].buf : IsFor(c, clients[c].buf[i])
          /\ IsSome(clients[c].got) => IsFor(c, Unwrap(clients[c].got))
          /\ Len(clients[c].buf) <= RespCap

\* three requests with different seeds were in rx_req together, sent in
\* another order than the clients are numbered, and each call of respond
\* has returned a response
C13_Witness ==
    /\ \A c \in Client : clients[c].pc = "done"
    /\ Len(log) >= NClients
    /\ \A i \in 1..NClients : log[i].ev = "enqueue"
    /\ Enqueued[1] > Enqueued[2]
    /\ \E c, d \in Client : clients[c].req.seed # clients[d].req.seed
    /\ \E c \in Client : IsSome(Unwrap(clients[c].got).response)

\* C19: every request sent to rx_req is answered: its call of respond
\* returns a response, unless that call was itself dropped.
C19_EveryRequestAnswered ==
    \A c \in Client :
        (clients[c].pc = "recv") ~> (clients[c].pc \in {"done", "dropped"})

\* the same, leaving aside the runs in which a generate call panics
C19_UnlessGeneratePanics ==
    \A c \in Client :
        (clients[c].pc = "recv")
            ~> (clients[c].pc \in {"done", "dropped"} \/ responder.cause = "generate")

\* the responder task is never ended by a failed send
C19_SendNeverFails == responder.cause # "send"

\* C19 as far as it holds: a response channel never receives two responses
C19_AtMostOneResponse ==
    \A c \in Client :
        Cardinality({i \in DOMAIN Steps : Steps[i] = Event("send", c)}) <= 1

(***************************************************************************)
(* SpecWalk: one generate call, walk by walk and pull by pull.  What a     *)
(* draw gives is free, and the specification with fairness says that a     *)
(* context visited again and again gives each id it holds again and again. *)
(***************************************************************************)

\* how many lines the Chain has ingested before the call
MaxWalkFeeds == 2

\* how far the ids a walk emitted are counted
MaxEmitted == 6

\* lines whose contexts lie on a cycle: (a, a) follows (a, a), and (a, b)
\* follows (b, a) follows (a, b)
WalkLines == {<<"a", " ", "a", " ", "a">>, <<"a", " ", "b", " ", "a", " ", "b">>}

WalkCorpora == UNION {[1..n -> WalkLines] : n \in 0..MaxWalkFeeds}

WalkSeeds == {None, Some(<<"a">>), Some(<<"b">>), Some(<<"z">>)}

RECURSIVE feed_lines(_, _)
feed_lines(c, lines) ==
    IF lines = <<>> THEN c ELSE feed_lines(feed_str(c, Head(lines)), Tail(lines))

\* the random source with the next draw fixed to k
Drawing(k) == [stream |-> <<k>>, pos |-> 0]

WalkInit ==
    /\ \E lines \in WalkCorpora :
          /\ corpus = lines
          /\ chain = feed_lines(Chain_new, lines)
    /\ \E seed \in WalkSeeds :
          walk_call = [pc |-> "start", seed |-> seed, start |-> <<0, 0>>,
                       attempt |-> 0, emitted |-> 0]
    /\ token_iter = NoIter
    /\ overflow_checks = FALSE
    /\ ngens = 0
    /\ last = NoOp
    /\ TokSetIdle
    /\ DictIdle
    /\ ServerIdle

IsWalking == walk_call.pc \in {Forward, Reverse}

\* an attempt is over: the next of the (1..50) follows, or the candidates
\* are collected and choose_best, a sort of at most 49 Strings, is what is
\* left of the call
EndAttempt(attempt) ==
    walk_call' = [walk_call EXCEPT !.pc = IF attempt = Attempts THEN "collected" ELSE "start",
                                   !.attempt = attempt]

\* generate_from_prefix returns: generate_one_from makes its reverse walk
\* after its forward walk, generate_one makes no other walk
EndWalk ==
    IF walk_call.pc = Forward /\ IsSome(walk_call.seed)
    THEN /\ walk_call' = [walk_call EXCEPT !.pc = Reverse, !.emitted = 0]
         /\ token_iter' = iterator(Reverse, walk_call.start, Drawing(0))
    ELSE /\ EndAttempt(walk_call.attempt)
         /\ UNCHANGED token_iter

\* the forward walk of an attempt begins from prefix
BeginWalk(prefix) ==
    /\ walk_call' = [walk_call EXCEPT !.pc = Forward, !.start = prefix,
                                      !.attempt = walk_call.attempt + 1,
                                      !.emitted = 0]
    /\ token_iter' = iterator(Forward, prefix, Drawing(0))

\* generate_one up to its walk: s is what self.dict.tokid(&None) returned
StartOne(s) ==
    /\ chain' = [chain EXCEPT !.dict = s.dict]
    /\ BeginWalk(<<s.id, s.id>>)

\* generate_one_from up to its walk: s is what self.dict.tokid(&Some(start))
\* returned; without an Entry Index entry the attempt is over
StartOneFrom(s) ==
    /\ chain' = [chain EXCEPT !.dict = s.dict]
    /\ IF s.id \in DOMAIN chain.entries
       THEN \E k \in 0..(length(chain.entries[s.id]) - 1) :
               BeginWalk(<<s.id, choose(chain.entries[s.id], Drawing(k)).value>>)
       ELSE /\ EndAttempt(walk_call.attempt + 1)
            /\ UNCHANGED token_iter

\* the next attempt of the call begins
StartAttempt ==
    /\ walk_call.pc = "start"
    /\ IF walk_call.seed = None
       THEN StartOne(tokid(chain.dict, None))
       ELSE StartOneFrom(tokid(chain.dict, Some(Unwrap(walk_call.seed))))
    /\ UNCHANGED <<overflow_checks, corpus, ngens, last, toksetVars, dictVars, serverVars>>

\* the pull gave n = [panic, item, iter]: the sentinel ends the walk
\* (take_while), another id is emitted
Pulled(n) ==
    IF Unwrap(n.item) = tokid(chain.dict, None).id
    THEN EndWalk
    ELSE /\ token_iter' = [n.iter EXCEPT !.rng = Drawing(0)]
         /\ walk_call' = [walk_call EXCEPT
                             !.emitted = IF @ < MaxEmitted THEN @ + 1 ELSE @]

\* TokenIter::next in the context `prefix` draws the id `value`
Pull(prefix, value) ==
    /\ IsWalking
    /\ token_iter.prefix = prefix
    /\ paths_get(chain.paths, prefix) # None
    /\ \E k \in 0..(length(IF token_iter.direction = Forward
                           THEN Unwrap(paths_get(chain.paths, prefix)).forward
                           ELSE Unwrap(paths_get(chain.paths, prefix)).reverse) - 1) :
          /\ TokenIter_next(chain.paths,
                            [token_iter EXCEPT !.rng = Drawing(k)]).item = Some(value)
          /\ Pulled(TokenIter_next(chain.paths, [token_iter EXCEPT !.rng = Drawing(k)]))
    /\ UNCHANGED <<chainVars, toksetVars, dictVars, serverVars>>

\* the ids of the Chains of WalkInit: the sentinel and the words a and b
WalkIds == 0..2

PullAny == \E prefix \in WalkIds \X WalkIds, value \in WalkIds : Pull(prefix, value)

\* the context of the walk is not in the Transition Index: paths.get gives
\* None and the walk ends
Unseen ==
    /\ IsWalking
    /\ paths_get(chain.paths, token_iter.prefix) = None
    /\ EndWalk
    /\ UNCHANGED <<chainVars, toksetVars, dictVars, serverVars>>

WalkNext == StartAttempt \/ PullAny \/ Unseen

SpecWalk == WalkInit /\ [][WalkNext]_vars

\* the contexts of the Chains of WalkInit that hold more than one id, each
\* with each id it holds: (a, a) and (a, b) hold a word and the sentinel in
\* either direction, (a, b) holds b before it, (sentinel, a) holds a and b
\* behind it.  A context that holds one id leaves nothing to choose.
Choices ==
    {<<<<1, 1>>, 1>>, <<<<1, 1>>, 0>>,
     <<<<1, 2>>, 1>>, <<<<1, 2>>, 0>>, <<<<1, 2>>, 2>>,
     <<<<0, 1>>, 1>>, <<<<0, 1>>, 2>>}

\* the call goes on while it can, and a context that is visited again and
\* again gives each of its ids again and again
SpecWalkFair ==
    /\ SpecWalk
    /\ WF_vars(WalkNext)
    /\ \A ch \in Choices : SF_vars(Pull(ch[1], ch[2]))

\* C16: when each id a context holds is drawn again and again, every walk
\* ends, by the sentinel or at an unseen context, whatever cycle its
\* contexts lie on, and the generate call completes its 49 attempts.
C16_WalksEnd == <>(walk_call.pc = "collected" /\ walk_call.attempt = Attempts)

\* the call goes on while it can, but no draw is owed to any id
SpecWalkUnfair == SpecWalk /\ WF_vars(WalkNext)

\* the ids a context holds in the direction d
Held(p, d) ==
    Range(Contents(IF d = Forward
                   THEN chain.paths.maps[p[1]][p[2]].forward
                   ELSE chain.paths.maps[p[1]][p[2]].reverse))

\* WalkIds leaves out no id of a context, and Choices no draw there is a
\* choice about
C16_ChoicesCovered ==
    /\ Contexts(chain) \subseteq WalkIds \X WalkIds
    /\ \A p \in Contexts(chain), d \in {Forward, Reverse} :
          Cardinality(Held(p, d)) > 1 => \A v \in Held(p, d) : <<p, v>> \in Choices

\* the call has made its 49 attempts, and the last walk went round a cycle:
\* it emitted more ids than its line has words
C16_Witness ==
    /\ walk_call.pc = "collected"
    /\ walk_call.attempt = Attempts
    /\ walk_call.emitted = MaxEmitted
    /\ Len(corpus) = 1

====
